---- MODULE Spec2Model ----
(***************************************************************************)
(* Model of analyzer.py: a three-pass reconciliation of a plain-text       *)
(* ledger.  Pass 1 parses the record file into data_table, pass 2          *)
(* validates and enriches every entry, pass 3 folds the entries into the   *)
(* FIFO item cost queues, the reservations, the per-reference values and   *)
(* the two totals, and the report is printed last.                         *)
(*                                                                         *)
(* Text is modelled as a sequence of one-character strings where the code  *)
(* looks inside it (REF), and as an atom where it only compares it.        *)
(* Money is an integer number of USD; dates are <<year, month, day>>,      *)
(* compared left to right as the zero-padded ISO strings are.              *)
(***************************************************************************)
EXTENDS Integers, Sequences, FiniteSets, TLC

VARIABLES
    pass,                    \* which part of the script is running
    data_table,              \* the entries parsed by pass 1 (enriched by pass 2)
    idx,                     \* number of entries the running loop has consumed
    last_date,               \* pass 2: DATE of the previous entry
    cache,                   \* dates that have a file in the exchange-rate cache
    item_cost,               \* item name -> FIFO sequence of unit costs
    ref_value,               \* stripped reference -> accumulated value
    reserved_items_counter,  \* stripped reference -> [items, remarks]
    cash_flow,
    profit,
    err,                     \* "ok", or the exception that ended the run
    reported,                \* TRUE once the report has been printed
    fetches,                 \* history: date -> number of downloads of its rates
    sum_income,              \* history: sum of VALUE of the INCOME entries processed
    sum_expense,             \* history: sum of VALUE of the non-material EXPENSE entries processed
    sum_consumed,            \* history: sum of the unit costs removed from the queues
    validated,               \* history: number of entries pass 2 has accepted
    reserves,                \* history: stripped reference -> ITEMS of its successful RESERVEs
    appended,                \* history: item name -> every cost OBTAIN has appended, in order
    quantity_obtained,       \* history: item name -> sum of QUANTITY of its OBTAIN entries
    units_consumed           \* history: item name -> units asked by successful consuming entries

vars == <<pass, data_table, idx, last_date, cache, item_cost, ref_value,
          reserved_items_counter, cash_flow, profit, err, reported, fetches,
          sum_income, sum_expense, sum_consumed, validated, reserves, appended,
          quantity_obtained, units_consumed>>

ledger_vars == <<item_cost, ref_value, reserved_items_counter, cash_flow, profit>>
history_vars == <<sum_income, sum_expense, sum_consumed, reserves, appended,
                  quantity_obtained, units_consumed>>

----------------------------------------------------------------------------
(* Bounds of the model *)

MaxEntries == 3          \* lines of the record file, for the whole pipeline
MaxLedgerEntries == 4    \* entries consumed by pass 3, for the ledger pass alone

----------------------------------------------------------------------------
(* Tables of the program *)

AVAILABLE_ITEMS == <<"ilonena", "ilomusiali">>

ItemNames == {AVAILABLE_ITEMS[i] : i \in 1..Len(AVAILABLE_ITEMS)}

Required(action) ==
    CASE action = "OBTAIN"  -> <<"DATE", "TYPE", "PROJECT", "QUANTITY", "COSTEACH">>
      [] action = "RESERVE" -> <<"DATE", "REF", "ITEMS">>
      [] action = "RELEASE" -> <<"DATE", "TYPE", "REF", "ITEMS">>
      [] action = "INCOME"  -> <<"DATE", "TYPE", "AMOUNT", "FEE">>
      [] action = "EXPENSE" -> <<"DATE", "TYPE", "AMOUNT", "FEE">>

Optional(action) ==
    CASE action = "OBTAIN"  -> <<"BATCH", "REMARKS">>
      [] action = "RESERVE" -> <<"REMARKS">>
      [] action = "RELEASE" -> <<"REMARKS">>
      [] action = "INCOME"  -> <<"REF", "REMARKS">>
      [] action = "EXPENSE" -> <<"PROJECT", "BATCH", "SUPPLIER", "REF", "REMARKS">>

AVAILABLE_ACTIONS == {"OBTAIN", "RESERVE", "RELEASE", "INCOME", "EXPENSE"}

AVAILABLE_TYPES(action) ==
    CASE action = "OBTAIN"  -> {"assembled", "returned", "repaired"}
      [] action = "RELEASE" -> {"sales", "gift", "replacement", "giveaway", "scrap"}
      [] action = "INCOME"  -> {"sales", "donation"}
      [] action = "EXPENSE" -> {"R&D", "material", "shipping", "replacement",
                                "reimbursement", "refund"}

Range(s) == {s[i] : i \in 1..Len(s)}

----------------------------------------------------------------------------
(* remove_suffix: re.match("([0-9-_]+)[A-Za-z]*", s).group(1), "" for "" *)

RefLeadChars == {"0", "1", "2", "3", "4", "5", "6", "7", "8", "9", "-", "_"}

RECURSIVE LeadRun(_)
LeadRun(s) ==
    IF s = <<>> \/ Head(s) \notin RefLeadChars
    THEN <<>>
    ELSE <<Head(s)>> \o LeadRun(Tail(s))

\* the match is None, so .group(1) raises AttributeError
remove_suffix_raises(s) == s # <<>> /\ LeadRun(s) = <<>>

remove_suffix(s) == IF s # <<>> THEN LeadRun(s) ELSE <<>>

----------------------------------------------------------------------------
(* parse_items: a dict, in insertion order, of name -> quantity; a name     *)
(* given twice keeps its first position and its last quantity.  An ITEMS   *)
(* value is modelled as the sequence of its tokens, each token as the      *)
(* [name, quantity] its regular expression splits it into.                 *)

RECURSIVE parse_items_from(_, _)
parse_items_from(items, ret) ==
    IF items = <<>> THEN ret
    ELSE LET tok == Head(items)
             at == {i \in 1..Len(ret) : ret[i].name = tok.name}
         IN parse_items_from(Tail(items),
              IF at = {} THEN Append(ret, tok)
              ELSE [i \in 1..Len(ret) |-> IF i \in at THEN tok ELSE ret[i]])

parse_items(items) == parse_items_from(items, <<>>)

----------------------------------------------------------------------------
(* convert_to_usd and compute_value.  An amount expression is <<"0">> for  *)
(* the literal 0, <<code, number>> when the regular expression matches,    *)
(* and any other sequence when it does not.  A fee is <<"%", number>> when *)
(* it ends in %, an amount expression otherwise.  Both return the value,   *)
(* the exception raised if any, and the cache as they leave it.            *)

\* the "rates" object of a day's cache file: units of the currency per USD
Rates(date) == ("CNY" :> 7) @@ ("HKD" :> 8)

Upper(code) ==
    CASE code = "usd" -> "USD"
      [] code = "cny" -> "CNY"
      [] code = "rmb" -> "RMB"
      [] OTHER -> code

Bump(count, k) ==
    IF k \in DOMAIN count THEN [count EXCEPT ![k] = @ + 1] ELSE (k :> 1) @@ count

Converted(value, raised, files, downloads) ==
    [value |-> value, raised |-> raised, cache |-> files, fetches |-> downloads]

\* lines 68-74, with the day's cache file in place
ApplyRate(date, currency, amount_value, files, downloads) ==
    IF Upper(currency) = "USD"
    THEN Converted(amount_value, "ok", files, downloads)
    ELSE IF Upper(currency) \notin DOMAIN Rates(date)
    THEN Converted(0, "ValueError", files, downloads)
    ELSE Converted(amount_value \div Rates(date)[Upper(currency)], "ok", files, downloads)

\* a variant that downloads the day's file whether or not it is there
ThroughCache_AlwaysFetches(date, currency, amount_value, files, downloads) ==
    ApplyRate(date, currency, amount_value, files \cup {date}, Bump(downloads, date))

\* lines 59-66: the day's file is downloaded and written when it is missing
ThroughCache(date, currency, amount_value, files, downloads) ==
    IF date \notin files
    THEN ApplyRate(date, currency, amount_value, files \cup {date}, Bump(downloads, date))
    ELSE ApplyRate(date, currency, amount_value, files, downloads)

convert_to_usd(date, amount, files, downloads) ==
    IF amount = <<"0">> THEN ThroughCache(date, "USD", 0, files, downloads)
    ELSE IF Len(amount) # 2 THEN Converted(0, "ValueError", files, downloads)
    ELSE ThroughCache(date, IF amount[1] = "RMB" THEN "CNY" ELSE amount[1],
                      amount[2], files, downloads)

\* a variant that deducts the fee from an expense as well
NetOfFee_AlwaysDeducts(amount_value, f, income) ==
    IF f.raised # "ok" THEN f
    ELSE [f EXCEPT !.value = amount_value - f.value]

\* lines 85-88
NetOfFee(amount_value, f, income) ==
    IF f.raised # "ok" THEN f
    ELSE [f EXCEPT !.value = IF income THEN amount_value - f.value
                             ELSE amount_value + f.value]

\* lines 79-82
WithFee(date, a, fee, income) ==
    IF a.raised # "ok" THEN a
    ELSE IF fee[1] = "%"
    THEN NetOfFee(a.value, [a EXCEPT !.value = (a.value * fee[2]) \div 100], income)
    ELSE NetOfFee(a.value, convert_to_usd(date, fee, a.cache, a.fetches), income)

compute_value(date, amount, fee, income, files, downloads) ==
    WithFee(date, convert_to_usd(date, amount, files, downloads), fee, income)

----------------------------------------------------------------------------
(* Pass 2: validation of one entry (lines 141-212).                        *)

\* the order of str: left to right, a proper prefix first
RECURSIVE StrLess(_, _)
StrLess(a, b) ==
    IF b = <<>> THEN FALSE
    ELSE IF a = <<>> THEN TRUE
    ELSE IF Head(a) # Head(b) THEN Head(a) < Head(b)
    ELSE StrLess(Tail(a), Tail(b))

DaysIn(year, month) ==
    IF month = 2
    THEN (IF year % 4 = 0 /\ (year % 100 # 0 \/ year % 400 = 0) THEN 29 ELSE 28)
    ELSE IF month \in {4, 6, 9, 11} THEN 30 ELSE 31

\* datetime.datetime(year, month, day) does not raise
ValidDate(d) ==
    /\ d[1] \in 1..9999
    /\ d[2] \in 1..12
    /\ d[3] \in 1..DaysIn(d[1], d[2])

\* int(text)
IntLiterals == ("-1" :> -1) @@ ("0" :> 0) @@ ("1" :> 1) @@ ("2" :> 2) @@ ("3" :> 3) @@ ("4" :> 4)

Put(entry, field, value) ==
    [f \in DOMAIN entry \cup {field} |-> IF f = field THEN value ELSE entry[f]]

\* "" as the value of a field: REF is text the code looks inside
Empty(field) == IF field = "REF" THEN <<>> ELSE ""

FillOptional(entry) ==
    [f \in DOMAIN entry \cup Range(Optional(entry.action)) |->
        IF f \in DOMAIN entry THEN entry[f] ELSE Empty(f)]

Raise(what, entry, last, files, downloads) ==
    [line |-> entry, last_date |-> last, cache |-> files, fetches |-> downloads,
     raised |-> what]

\* stage C: line 211
ValidateStageC(entry, last, files, downloads) ==
    IF /\ entry.action = "EXPENSE"
       /\ entry.TYPE = "material"
       /\ (entry.PROJECT = "" \/ entry.BATCH = "" \/ entry.SUPPLIER = "")
    THEN Raise("MaterialIncomplete", entry, last, files, downloads)
    ELSE Raise("ok", entry, last, files, downloads)

WithValue(entry, last, v) ==
    IF v.raised # "ok" THEN Raise(v.raised, entry, last, v.cache, v.fetches)
    ELSE ValidateStageC(Put(entry, "VALUE", v.value), last, v.cache, v.fetches)

\* lines 203-206
ValidateValue(entry, last, files, downloads) ==
    IF entry.action \in {"INCOME", "EXPENSE"}
    THEN WithValue(entry, last,
                   compute_value(entry.DATE, entry.AMOUNT, entry.FEE,
                                 entry.action = "INCOME", files, downloads))
    ELSE ValidateStageC(entry, last, files, downloads)

\* lines 197-201
ValidateQuantity(entry, last, files, downloads) ==
    IF "QUANTITY" \notin DOMAIN entry THEN ValidateValue(entry, last, files, downloads)
    ELSE IF entry.QUANTITY \notin DOMAIN IntLiterals
    THEN Raise("InvalidQuantity", entry, last, files, downloads)
    ELSE ValidateValue(Put(entry, "QUANTITY", IntLiterals[entry.QUANTITY]),
                       last, files, downloads)

WithCostEach(entry, last, c) ==
    IF c.raised # "ok" THEN Raise("InvalidCurrency", entry, last, c.cache, c.fetches)
    ELSE ValidateQuantity(Put(entry, "COSTEACH", c.value), last, c.cache, c.fetches)

\* stage B, on the entry with its optional fields filled: lines 191-195
ValidateStageB(entry, last, files, downloads) ==
    IF "COSTEACH" \in DOMAIN entry
    THEN WithCostEach(entry, last,
                      convert_to_usd(entry.DATE, entry.COSTEACH, files, downloads))
    ELSE ValidateQuantity(entry, last, files, downloads)

\* lines 180-186
ValidateFields(filled, last, files, downloads) ==
    IF \E f \in DOMAIN filled :
          f \notin {"action"} \cup Range(Required(filled.action))
                              \cup Range(Optional(filled.action))
    THEN Raise("UnrecognizedField", filled, last, files, downloads)
    ELSE ValidateStageB(filled, last, files, downloads)

\* stage A after the date check: lines 167-177
ValidateStageA(entry, last, files, downloads) ==
    IF "TYPE" \in DOMAIN entry /\ entry.action = "RESERVE"
    THEN Raise("KeyError", entry, last, files, downloads)
    ELSE IF "TYPE" \in DOMAIN entry /\ entry.TYPE \notin AVAILABLE_TYPES(entry.action)
    THEN Raise("InvalidType", entry, last, files, downloads)
    ELSE IF "PROJECT" \in DOMAIN entry /\ entry.PROJECT \notin ItemNames
    THEN Raise("InvalidProject", entry, last, files, downloads)
    ELSE IF /\ "ITEMS" \in DOMAIN entry
            /\ \E t \in Range(parse_items(entry.ITEMS)) : t.name \notin ItemNames
    THEN Raise("InvalidItems", entry, last, files, downloads)
    ELSE ValidateFields(FillOptional(entry), last, files, downloads)

\* a variant that lets every date through
DateCheckFails_Never(date, last) == FALSE

\* a variant that also rejects a date equal to the last one
DateCheckFails_Strict(date, last) == ~StrLess(last, date)

\* line 163: line["DATE"] < last_date
DateCheckFails(date, last) == StrLess(date, last)

validate_line(entry, last, files, downloads) ==
    IF entry.action \notin AVAILABLE_ACTIONS
    THEN Raise("InvalidAction", entry, last, files, downloads)
    ELSE IF \E f \in Range(Required(entry.action)) : f \notin DOMAIN entry
    THEN Raise("MissingField", entry, last, files, downloads)
    ELSE IF Len(entry.DATE) # 3
    THEN Raise("WrongDateFormat", entry, last, files, downloads)
    ELSE IF ~ValidDate(entry.DATE)
    THEN Raise("WrongDateValue", entry, last, files, downloads)
    ELSE IF DateCheckFails(entry.DATE, last)
    THEN Raise("NonChronological", entry, last, files, downloads)
    ELSE ValidateStageA(entry, entry.DATE, files, downloads)

----------------------------------------------------------------------------
(* Pass 3 helpers.  Each takes the part of the ledger it changes and       *)
(* returns the new value together with the exception it raised, if any:    *)
(* a raise leaves in place whatever the loop had already changed.          *)

\* a variant that takes the newest unit first
RECURSIVE take_units_Newest(_, _, _)
take_units_Newest(queue, quantity, total) ==
    IF quantity <= 0 THEN [queue |-> queue, total |-> total, raised |-> "ok"]
    ELSE IF queue = <<>> THEN [queue |-> queue, total |-> total, raised |-> "IndexError"]
    ELSE take_units_Newest(SubSeq(queue, 1, Len(queue) - 1), quantity - 1,
                           total + queue[Len(queue)])

\* for unit in range(quantity): total += queue[0]; queue = queue[1:]
RECURSIVE take_units(_, _, _)
take_units(queue, quantity, total) ==
    IF quantity <= 0 THEN [queue |-> queue, total |-> total, raised |-> "ok"]
    ELSE IF queue = <<>> THEN [queue |-> queue, total |-> total, raised |-> "IndexError"]
    ELSE take_units(Tail(queue), quantity - 1, total + Head(queue))

RECURSIVE take_items_from(_, _, _)
take_items_from(items, costs, total) ==
    IF items = <<>> THEN [item_cost |-> costs, total |-> total, raised |-> "ok"]
    ELSE LET t == take_units(costs[Head(items).name], Head(items).quantity, total)
             c == [costs EXCEPT ![Head(items).name] = t.queue]
         IN IF t.raised # "ok"
            THEN [item_cost |-> c, total |-> t.total, raised |-> t.raised]
            ELSE take_items_from(Tail(items), c, t.total)

take_item_and_compute_cost(items, costs) ==
    take_items_from(parse_items(items), costs, 0)

EmptyDict == [x \in {} |-> 0]

RECURSIVE add_reserved_from(_, _, _, _)
add_reserved_from(items, counter, ref, remarks) ==
    IF items = <<>> THEN counter
    ELSE LET c1 == IF ref \notin DOMAIN counter
                   THEN (ref :> [items |-> EmptyDict, remarks |-> remarks]) @@ counter
                   ELSE counter
             c2 == [c1 EXCEPT ![ref].items =
                        (Head(items).name :> Head(items).quantity) @@ @]
         IN add_reserved_from(Tail(items), c2, ref, remarks)

add_reserved_inventory(counter, ref, items, remarks) ==
    add_reserved_from(parse_items(items), counter, ref, remarks)

Without(f, k) == [x \in DOMAIN f \ {k} |-> f[x]]

RECURSIVE take_reserved_from(_, _, _)
take_reserved_from(items, counter, ref) ==
    IF items = <<>> THEN [counter |-> counter, raised |-> "ok"]
    ELSE LET name == Head(items).name
             held == counter[ref].items
         IN IF name \notin DOMAIN held
            THEN [counter |-> counter, raised |-> "KeyError"]
            ELSE LET left == held[name] - Head(items).quantity
                 IN IF left = 0
                    THEN take_reserved_from(Tail(items),
                           [counter EXCEPT ![ref].items = Without(held, name)], ref)
                    ELSE IF left < 0
                    THEN [counter |-> [counter EXCEPT ![ref].items[name] = left],
                          raised |-> "OverRelease"]
                    ELSE take_reserved_from(Tail(items),
                           [counter EXCEPT ![ref].items[name] = left], ref)

take_reserved_inventory(counter, ref, items) ==
    take_reserved_from(parse_items(items), counter, ref)

----------------------------------------------------------------------------
(* Pass 3 branches, as functions of the ledger L = [item_cost, ref_value,  *)
(* reserved_items_counter, cash_flow, profit, err] and the entry.          *)

\* [x] * n: the empty list when n <= 0
Copies(x, n) == IF n <= 0 THEN <<>> ELSE [i \in 1..n |-> x]

\* a variant that leaves the income out of the reference's value
IncomeBranch_SkipsRefValue(L, entry) ==
    IF remove_suffix_raises(entry.REF) THEN [L EXCEPT !.err = "AttributeError"]
    ELSE IF remove_suffix(entry.REF) \notin DOMAIN L.ref_value
    THEN [L EXCEPT !.err = "KeyError"]
    ELSE [L EXCEPT !.cash_flow = @ + entry.VALUE, !.profit = @ + entry.VALUE]

IncomeBranch(L, entry) ==
    IF remove_suffix_raises(entry.REF) THEN [L EXCEPT !.err = "AttributeError"]
    ELSE LET ref == remove_suffix(entry.REF)
         IN IF ref \notin DOMAIN L.ref_value THEN [L EXCEPT !.err = "KeyError"]
            ELSE [L EXCEPT !.ref_value[ref] = @ + entry.VALUE,
                           !.cash_flow = @ + entry.VALUE,
                           !.profit = @ + entry.VALUE]

\* a variant that charges material cost to profit when it is paid
ExpenseBranch_ChargesMaterial(L, entry) ==
    IF remove_suffix_raises(entry.REF)
    THEN [L EXCEPT !.cash_flow = @ - entry.VALUE, !.err = "AttributeError"]
    ELSE IF remove_suffix(entry.REF) \notin DOMAIN L.ref_value
    THEN [L EXCEPT !.cash_flow = @ - entry.VALUE, !.err = "KeyError"]
    ELSE [L EXCEPT !.cash_flow = @ - entry.VALUE,
                   !.ref_value[remove_suffix(entry.REF)] = @ - entry.VALUE,
                   !.profit = @ - entry.VALUE]

ExpenseBranch(L, entry) ==
    LET L1 == [L EXCEPT !.cash_flow = @ - entry.VALUE]
    IN IF entry.TYPE = "material" THEN L1
       ELSE IF remove_suffix_raises(entry.REF) THEN [L1 EXCEPT !.err = "AttributeError"]
       ELSE LET ref == remove_suffix(entry.REF)
            IN IF ref \notin DOMAIN L1.ref_value THEN [L1 EXCEPT !.err = "KeyError"]
               ELSE [L1 EXCEPT !.ref_value[ref] = @ - entry.VALUE,
                               !.profit = @ - entry.VALUE]

ObtainBranch(L, entry) ==
    [L EXCEPT !.item_cost[entry.PROJECT] = @ \o Copies(entry.COSTEACH, entry.QUANTITY)]

\* a variant that looks for the reference among the reservations only
DuplicatedReserve_AmongReservations(ref, L) == ref \in DOMAIN L.reserved_items_counter

\* line 271: remove_suffix(line["REF"]) in ref_value
DuplicatedReserve(ref, L) == ref \in DOMAIN L.ref_value

\* a variant that records the cost of the reservation with the wrong sign
ReserveBranch_PlusCost(L, entry) ==
    IF remove_suffix_raises(entry.REF) THEN [L EXCEPT !.err = "AttributeError"]
    ELSE LET ref == remove_suffix(entry.REF)
         IN IF DuplicatedReserve(ref, L) THEN [L EXCEPT !.err = "DuplicateReserve"]
            ELSE LET t == take_item_and_compute_cost(entry.ITEMS, L.item_cost)
                 IN IF t.raised # "ok"
                    THEN [L EXCEPT !.item_cost = t.item_cost, !.err = t.raised]
                    ELSE [L EXCEPT
                            !.item_cost = t.item_cost,
                            !.reserved_items_counter =
                                add_reserved_inventory(@, ref, entry.ITEMS, entry.REMARKS),
                            !.ref_value = (ref :> t.total) @@ @,
                            !.profit = @ - t.total]

ReserveBranch(L, entry) ==
    IF remove_suffix_raises(entry.REF) THEN [L EXCEPT !.err = "AttributeError"]
    ELSE LET ref == remove_suffix(entry.REF)
         IN IF DuplicatedReserve(ref, L) THEN [L EXCEPT !.err = "DuplicateReserve"]
            ELSE LET t == take_item_and_compute_cost(entry.ITEMS, L.item_cost)
                 IN IF t.raised # "ok"
                    THEN [L EXCEPT !.item_cost = t.item_cost, !.err = t.raised]
                    ELSE [L EXCEPT
                            !.item_cost = t.item_cost,
                            !.reserved_items_counter =
                                add_reserved_inventory(@, ref, entry.ITEMS, entry.REMARKS),
                            !.ref_value = (ref :> (0 - t.total)) @@ @,
                            !.profit = @ - t.total]

\* a variant that takes the units from the queues under a reserved reference too
ReleaseBranch_ConsumesAgain(L, entry) ==
    IF remove_suffix_raises(entry.REF) THEN [L EXCEPT !.err = "AttributeError"]
    ELSE LET ref == remove_suffix(entry.REF)
             t == take_item_and_compute_cost(entry.ITEMS, L.item_cost)
             rv == IF ref \notin DOMAIN L.ref_value
                   THEN (ref :> 0) @@ L.ref_value
                   ELSE L.ref_value
         IN IF t.raised # "ok"
            THEN [L EXCEPT !.item_cost = t.item_cost, !.err = t.raised]
            ELSE IF ref \notin DOMAIN L.reserved_items_counter
            THEN [L EXCEPT
                    !.item_cost = t.item_cost,
                    !.ref_value = [rv EXCEPT ![ref] = @ - t.total],
                    !.profit = @ - t.total]
            ELSE LET r == take_reserved_inventory(L.reserved_items_counter, ref, entry.ITEMS)
                 IN [L EXCEPT
                       !.item_cost = t.item_cost,
                       !.ref_value = [rv EXCEPT ![ref] = @ - t.total],
                       !.profit = @ - t.total,
                       !.reserved_items_counter = r.counter, !.err = r.raised]

ReleaseBranch(L, entry) ==
    IF remove_suffix_raises(entry.REF) THEN [L EXCEPT !.err = "AttributeError"]
    ELSE LET ref == remove_suffix(entry.REF)
         IN IF ref \notin DOMAIN L.reserved_items_counter
            THEN LET t == take_item_and_compute_cost(entry.ITEMS, L.item_cost)
                     rv == IF ref \notin DOMAIN L.ref_value
                           THEN (ref :> 0) @@ L.ref_value
                           ELSE L.ref_value
                 IN IF t.raised # "ok"
                    THEN [L EXCEPT !.item_cost = t.item_cost, !.err = t.raised]
                    ELSE [L EXCEPT
                            !.item_cost = t.item_cost,
                            !.ref_value = [rv EXCEPT ![ref] = @ - t.total],
                            !.profit = @ - t.total]
            ELSE LET r == take_reserved_inventory(L.reserved_items_counter, ref, entry.ITEMS)
                 IN [L EXCEPT !.reserved_items_counter = r.counter, !.err = r.raised]

Pass3Branch(L, entry) ==
    CASE entry.action = "INCOME"  -> IncomeBranch(L, entry)
      [] entry.action = "EXPENSE" -> ExpenseBranch(L, entry)
      [] entry.action = "OBTAIN"  -> ObtainBranch(L, entry)
      [] entry.action = "RESERVE" -> ReserveBranch(L, entry)
      [] entry.action = "RELEASE" -> ReleaseBranch(L, entry)

----------------------------------------------------------------------------
(* The state before pass 1, and lines 217-221: the ledger before pass 3.   *)

InitialItemCost == [p \in ItemNames |-> <<>>]
InitialRefValue == (<<>> :> 0)

LedgerInitial ==
    /\ item_cost = InitialItemCost
    /\ ref_value = InitialRefValue
    /\ reserved_items_counter = EmptyDict
    /\ cash_flow = 0
    /\ profit = 0

HistoryInitial ==
    /\ sum_income = 0
    /\ sum_expense = 0
    /\ sum_consumed = 0
    /\ reserves = EmptyDict
    /\ appended = [p \in ItemNames |-> <<>>]
    /\ quantity_obtained = [p \in ItemNames |-> 0]
    /\ units_consumed = [p \in ItemNames |-> 0]

Ledger ==
    [item_cost |-> item_cost, ref_value |-> ref_value,
     reserved_items_counter |-> reserved_items_counter,
     cash_flow |-> cash_flow, profit |-> profit, err |-> err]

RECURSIVE SumSeq(_)
SumSeq(s) == IF s = <<>> THEN 0 ELSE Head(s) + SumSeq(Tail(s))

RECURSIVE SumOver(_, _)
SumOver(f, keys) ==
    IF keys = {} THEN 0
    ELSE LET k == CHOOSE x \in keys : TRUE IN f[k] + SumOver(f, keys \ {k})

QueuesTotal(costs) == SumOver([p \in DOMAIN costs |-> SumSeq(costs[p])], DOMAIN costs)

Logged(log, k, x) ==
    IF k \in DOMAIN log THEN [log EXCEPT ![k] = Append(@, x)] ELSE (k :> <<x>>) @@ log

\* the quantity the ITEMS tokens ask of item p: that of the last token naming p
AskedOf(items, p) ==
    LET at == {i \in 1..Len(items) : items[i].name = p}
    IN IF at = {} THEN 0
       ELSE items[CHOOSE i \in at : \A j \in at : j <= i].quantity

(* One iteration of the pass 3 loop (lines 254-286) on entry. *)
Pass3Step(entry) ==
    LET L == Pass3Branch(Ledger, entry)
    IN /\ idx' = idx + 1
       /\ item_cost' = L.item_cost
       /\ ref_value' = L.ref_value
       /\ reserved_items_counter' = L.reserved_items_counter
       /\ cash_flow' = L.cash_flow
       /\ profit' = L.profit
       /\ err' = L.err
       /\ pass' = IF L.err = "ok" THEN pass ELSE "aborted"
       /\ sum_income' = IF entry.action = "INCOME" /\ L.err = "ok"
                        THEN sum_income + entry.VALUE ELSE sum_income
       /\ sum_expense' = IF entry.action = "EXPENSE" /\ L.err = "ok"
                            /\ entry.TYPE # "material"
                         THEN sum_expense + entry.VALUE ELSE sum_expense
       /\ sum_consumed' = IF entry.action \in {"RESERVE", "RELEASE"}
                          THEN sum_consumed + QueuesTotal(item_cost) - QueuesTotal(L.item_cost)
                          ELSE sum_consumed
       /\ reserves' = IF entry.action = "RESERVE" /\ L.err = "ok"
                      THEN Logged(reserves, remove_suffix(entry.REF), entry.ITEMS)
                      ELSE reserves
       /\ appended' = IF entry.action = "OBTAIN"
                       THEN [appended EXCEPT ![entry.PROJECT] =
                               @ \o SubSeq(L.item_cost[entry.PROJECT],
                                           Len(item_cost[entry.PROJECT]) + 1,
                                           Len(L.item_cost[entry.PROJECT]))]
                       ELSE appended
       /\ quantity_obtained' = IF entry.action = "OBTAIN"
                                THEN [quantity_obtained EXCEPT ![entry.PROJECT] =
                                        @ + entry.QUANTITY]
                                ELSE quantity_obtained
       /\ units_consumed' = IF /\ L.err = "ok"
                                /\ \/ entry.action = "RESERVE"
                                   \/ /\ entry.action = "RELEASE"
                                      /\ remove_suffix(entry.REF)
                                           \notin DOMAIN reserved_items_counter
                             THEN [p \in ItemNames |->
                                     units_consumed[p] + AskedOf(entry.ITEMS, p)]
                             ELSE units_consumed
       /\ UNCHANGED <<data_table, last_date, cache, reported, fetches, validated>>

----------------------------------------------------------------------------
(* The ledger pass alone: pass 3 run on every sequence of validated        *)
(* entries, each entry chosen when the loop reaches it.  Pass 3 reads only *)
(* the fields given here.                                                  *)

Order1 == <<"o", "r", "d", "e", "r", "1">>
Refs == {<<"1">>, <<"1", "a">>, <<"2">>, Order1}
Costs == {10, 20}
IncomeValues == {7}
ExpenseValues == {3}

Quantities == 0..2
Tokens == [name : {AVAILABLE_ITEMS[1]}, quantity : Quantities]
ItemsChoices ==
    {<<t>> : t \in Tokens} \cup {<<[name |-> AVAILABLE_ITEMS[2], quantity |-> 1]>>}
    \cup {<<[name |-> AVAILABLE_ITEMS[1], quantity |-> 1],
            [name |-> AVAILABLE_ITEMS[2], quantity |-> 1]>>}

IncomeEntries  == [action : {"INCOME"}, REF : Refs \cup {<<>>}, VALUE : IncomeValues]
ExpenseEntries == [action : {"EXPENSE"}, REF : Refs \cup {<<>>}, VALUE : ExpenseValues,
                   TYPE : {"material", "shipping"}]
ObtainEntries  ==
    [action : {"OBTAIN"}, PROJECT : {AVAILABLE_ITEMS[1]}, QUANTITY : Quantities \ {0},
     COSTEACH : Costs]
    \cup [action : {"OBTAIN"}, PROJECT : {AVAILABLE_ITEMS[1]}, QUANTITY : {-1},
          COSTEACH : {10}]
    \cup [action : {"OBTAIN"}, PROJECT : {AVAILABLE_ITEMS[2]}, QUANTITY : {1}, COSTEACH : {10}]
ReserveEntries == [action : {"RESERVE"}, REF : Refs, ITEMS : ItemsChoices,
                   REMARKS : {""}]
ReleaseEntries == [action : {"RELEASE"}, REF : Refs, ITEMS : ItemsChoices]

LedgerInit ==
    /\ pass = "ledger"
    /\ data_table = <<>>
    /\ idx = 0
    /\ last_date = <<0, 0, 0>>
    /\ cache = {}
    /\ LedgerInitial
    /\ err = "ok"
    /\ reported = FALSE
    /\ fetches = EmptyDict
    /\ validated = 0
    /\ HistoryInitial

LedgerRunning == pass = "ledger" /\ idx < MaxLedgerEntries

LedgerIncome  == LedgerRunning /\ \E e \in IncomeEntries : Pass3Step(e)
LedgerExpense == LedgerRunning /\ \E e \in ExpenseEntries : Pass3Step(e)
LedgerObtain  == LedgerRunning /\ \E e \in ObtainEntries : Pass3Step(e)
LedgerReserve == LedgerRunning /\ \E e \in ReserveEntries : Pass3Step(e)
LedgerRelease == LedgerRunning /\ \E e \in ReleaseEntries : Pass3Step(e)

LedgerNext ==
    \/ LedgerIncome
    \/ LedgerExpense
    \/ LedgerObtain
    \/ LedgerReserve
    \/ LedgerRelease

LedgerSpec == LedgerInit /\ [][LedgerNext]_vars

----------------------------------------------------------------------------
(* The whole script: pass 1 reads the record file line by line into        *)
(* data_table, pass 2 validates every entry, pass 3 processes every entry, *)
(* then the report is printed.  The record file is any sequence of at most *)
(* MaxEntries of the lines below; the exchange-rate cache directory holds  *)
(* any set of the days' files when the script starts.                      *)

Dates == {<<2023, 12, 31>>, <<2024, 1, 1>>}

Ilonena1 == <<[name |-> AVAILABLE_ITEMS[1], quantity |-> 1]>>

\* the fields of a line other than DATE, as pass 1 splits them
LineBodies ==
    { [action |-> "OBTAIN", TYPE |-> "assembled", PROJECT |-> AVAILABLE_ITEMS[1],
       QUANTITY |-> "2", COSTEACH |-> <<"USD", 5>>],
      [action |-> "RESERVE", REF |-> <<"1">>, ITEMS |-> Ilonena1],
      [action |-> "RELEASE", TYPE |-> "sales", REF |-> <<"1", "a">>, ITEMS |-> Ilonena1],
      [action |-> "RELEASE", TYPE |-> "sales", REF |-> Order1, ITEMS |-> Ilonena1],
      [action |-> "INCOME", TYPE |-> "sales", AMOUNT |-> <<"USD", 100>>,
       FEE |-> <<"%", 10>>],
      [action |-> "EXPENSE", TYPE |-> "material", AMOUNT |-> <<"RMB", 70>>,
       FEE |-> <<"0">>, PROJECT |-> AVAILABLE_ITEMS[1], BATCH |-> "b1",
       SUPPLIER |-> "s1"] }

RecordLines == {Put(b, "DATE", d) : b \in LineBodies, d \in Dates}

Init ==
    /\ pass = "parse"
    /\ data_table = <<>>
    /\ idx = 0
    /\ last_date = <<0, 0, 0>>
    /\ cache \in SUBSET {<<2024, 1, 1>>}
    /\ LedgerInitial
    /\ err = "ok"
    /\ reported = FALSE
    /\ fetches = EmptyDict
    /\ validated = 0
    /\ HistoryInitial

\* lines 124-136, on a well-formed line
ReadLine ==
    /\ pass = "parse"
    /\ Len(data_table) < MaxEntries
    /\ \E l \in RecordLines : data_table' = Append(data_table, l)
    /\ UNCHANGED <<pass, idx, last_date, cache, ledger_vars, err, reported, fetches,
                   validated, history_vars>>

\* line 128 or 136 on a line with no ':' or a field with no value
ReadMalformedLine ==
    /\ pass = "parse"
    /\ Len(data_table) < MaxEntries
    /\ pass' = "aborted"
    /\ err' = "MalformedLine"
    /\ UNCHANGED <<data_table, idx, last_date, cache, ledger_vars, reported, fetches,
                   validated, history_vars>>

\* the end of the record file: line 139
EndOfFile ==
    /\ pass = "parse"
    /\ pass' = "validate"
    /\ idx' = 0
    /\ last_date' = <<0, 0, 0>>
    /\ UNCHANGED <<data_table, cache, ledger_vars, err, reported, fetches, validated,
                   history_vars>>

\* one iteration of the pass 2 loop
ValidateLine ==
    /\ pass = "validate"
    /\ idx < Len(data_table)
    /\ LET r == validate_line(data_table[idx + 1], last_date, cache, fetches)
       IN /\ data_table' = [data_table EXCEPT ![idx + 1] = r.line]
          /\ last_date' = r.last_date
          /\ cache' = r.cache
          /\ fetches' = r.fetches
          /\ err' = r.raised
          /\ pass' = IF r.raised = "ok" THEN pass ELSE "aborted"
          /\ validated' = IF r.raised = "ok" THEN validated + 1 ELSE validated
    /\ idx' = idx + 1
    /\ UNCHANGED <<ledger_vars, reported, history_vars>>

\* the iteration of the pass 2 loop in which the download of the day's rates
\* fails: urlopen (line 61) raises before the cache file is opened for writing
ValidateLineFetchFails ==
    /\ pass = "validate"
    /\ idx < Len(data_table)
    /\ LET entry == data_table[idx + 1]
           r == validate_line(entry, last_date, cache, fetches)
       IN /\ r.fetches # fetches
          /\ data_table' = [data_table EXCEPT ![idx + 1] = FillOptional(entry)]
          /\ last_date' = entry.DATE
          /\ fetches' = Bump(fetches, entry.DATE)
    /\ err' = "FetchFailed"
    /\ pass' = "aborted"
    /\ idx' = idx + 1
    /\ UNCHANGED <<cache, validated, ledger_vars, reported, history_vars>>

\* the end of pass 2: lines 217-221
BeginPass3 ==
    /\ pass = "validate"
    /\ idx = Len(data_table)
    /\ pass' = "ledger"
    /\ idx' = 0
    /\ item_cost' = InitialItemCost
    /\ ref_value' = InitialRefValue
    /\ reserved_items_counter' = EmptyDict
    /\ cash_flow' = 0
    /\ profit' = 0
    /\ UNCHANGED <<data_table, last_date, cache, err, reported, fetches, validated,
                   history_vars>>

Pass3At(action) ==
    /\ pass = "ledger"
    /\ idx < Len(data_table)
    /\ data_table[idx + 1].action = action

Pass3Income  == Pass3At("INCOME") /\ Pass3Step(data_table[idx + 1])
Pass3Expense == Pass3At("EXPENSE") /\ Pass3Step(data_table[idx + 1])
Pass3Obtain  == Pass3At("OBTAIN") /\ Pass3Step(data_table[idx + 1])
Pass3Reserve == Pass3At("RESERVE") /\ Pass3Step(data_table[idx + 1])
Pass3Release == Pass3At("RELEASE") /\ Pass3Step(data_table[idx + 1])

\* a variant that prints the report while entries are still to be processed
Report_BeforeTheEnd ==
    /\ pass = "ledger"
    /\ reported' = TRUE
    /\ pass' = "done"
    /\ UNCHANGED <<data_table, idx, last_date, cache, ledger_vars, err, fetches,
                   validated, history_vars>>

\* lines 288-301
Report ==
    /\ pass = "ledger"
    /\ idx = Len(data_table)
    /\ reported' = TRUE
    /\ pass' = "done"
    /\ UNCHANGED <<data_table, idx, last_date, cache, ledger_vars, err, fetches,
                   validated, history_vars>>

Next ==
    \/ ReadLine
    \/ ReadMalformedLine
    \/ EndOfFile
    \/ ValidateLine
    \/ ValidateLineFetchFails
    \/ BeginPass3
    \/ Pass3Income
    \/ Pass3Expense
    \/ Pass3Obtain
    \/ Pass3Reserve
    \/ Pass3Release
    \/ Report

Spec == Init /\ [][Next]_vars

----------------------------------------------------------------------------
(* Properties.  What an ITEMS value asks for is restated here from the     *)
(* text of the tokens, not through parse_items.                            *)

\* the quantity ITEMS asks of item p: that of its last token naming p
Requested(items, p) ==
    LET at == {i \in 1..Len(items) : items[i].name = p}
    IN IF at = {} THEN 0
       ELSE items[CHOOSE i \in at : \A j \in at : j <= i].quantity

Named(items) == {items[i].name : i \in 1..Len(items)}

DropFirst(queue, k) == SubSeq(queue, k + 1, Len(queue))
SumFirst(queue, k) == SumSeq(SubSeq(queue, 1, k))

\* the cost of the units ITEMS asks for, oldest first
FifoCost(items, costs) ==
    SumOver([p \in ItemNames |-> SumFirst(costs[p], Requested(items, p))], ItemNames)

KeyOk(entry) == ~remove_suffix_raises(entry.REF)
Key(entry) == remove_suffix(entry.REF)

After(e) == Pass3Branch(Ledger, e)

LedgerLive == pass = "ledger" /\ err = "ok"

Enough(items, costs) == \A p \in ItemNames : Len(costs[p]) >= Requested(items, p)

\* e would consume from the cost queues: a RESERVE under a new reference,
\* or a RELEASE under a reference with no reservation
Consuming(e) ==
    /\ KeyOk(e)
    /\ e.action = "RESERVE" => Key(e) \notin DOMAIN ref_value
    /\ e.action = "RELEASE" => Key(e) \notin DOMAIN reserved_items_counter

\* the units of item p still reserved under reference k
Outstanding(counter, k, p) ==
    IF k \in DOMAIN counter /\ p \in DOMAIN counter[k].items
    THEN counter[k].items[p] ELSE 0

\* C2: a RESERVE, or a RELEASE under a reference with no reservation, that
\* consumes k units of an item whose queue holds at least k charges the sum
\* of the k oldest costs of the queue and leaves the queue without its
\* first k elements, order kept.
C2_FifoConsumption ==
    LedgerLive =>
      \A e \in ReserveEntries \cup ReleaseEntries :
        (Consuming(e) /\ Enough(e.ITEMS, item_cost))
        => /\ After(e).err = "ok"
           /\ \A p \in ItemNames :
                After(e).item_cost[p] = DropFirst(item_cost[p], Requested(e.ITEMS, p))
           /\ profit - After(e).profit = FifoCost(e.ITEMS, item_cost)
           /\ After(e).ref_value[Key(e)] =
                (IF Key(e) \in DOMAIN ref_value THEN ref_value[Key(e)] ELSE 0)
                - FifoCost(e.ITEMS, item_cost)

\* the queue [10, 20] after one unit was consumed at cost 10
C2_Witness ==
    /\ err = "ok"
    /\ item_cost[AVAILABLE_ITEMS[1]] = <<20>>
    /\ sum_consumed = 10
    /\ profit = -10

\* C3: after a RESERVE of n units of an item under a reference, a RELEASE
\* of that item under that reference within what is still reserved succeeds
\* and leaves the rest reserved (zero once the releases sum to n), and once
\* nothing is left a further RELEASE of the item fails with the over-release
\* error.
C3_ReservationConservation ==
    LedgerLive =>
      \A k \in DOMAIN reserves : \A p \in ItemNames :
        Requested(reserves[k][1], p) >= 1 =>
          \A e \in ReleaseEntries :
            (KeyOk(e) /\ Key(e) = k /\ Named(e.ITEMS) = {p}) =>
              LET q == Requested(e.ITEMS, p)
                  out == Outstanding(reserved_items_counter, k, p)
              IN /\ (q >= 1 /\ q <= out) =>
                      /\ After(e).err = "ok"
                      /\ Outstanding(After(e).reserved_items_counter, k, p) = out - q
                 /\ (q >= 1 /\ out = 0) => After(e).err = "OverRelease"

\* C4: a RESERVE whose stripped REF is already a key of ref_value fails
\* with the duplicate-reference error, and no stripped reference has more
\* than one successful RESERVE.
C4_DuplicateReserve ==
    /\ \A k \in DOMAIN reserves : Len(reserves[k]) <= 1
    /\ LedgerLive =>
         \A e \in ReserveEntries :
           (KeyOk(e) /\ Key(e) \in DOMAIN ref_value) => After(e).err = "DuplicateReserve"

\* a second RESERVE under a reserved reference has failed
C4_Witness ==
    /\ err = "DuplicateReserve"
    /\ reserves # EmptyDict
    /\ DOMAIN reserves = DOMAIN reserved_items_counter

\* calendar order of two dates <<year, month, day>>
Earlier(d, e) ==
    \/ d[1] < e[1]
    \/ d[1] = e[1] /\ d[2] < e[2]
    \/ d[1] = e[1] /\ d[2] = e[2] /\ d[3] < e[3]

OutOfOrderAt(i) ==
    /\ i \in 2..Len(data_table)
    /\ Earlier(data_table[i].DATE, data_table[i - 1].DATE)

RunOver == pass \in {"aborted", "done"} /\ err # "MalformedLine"

\* C5: the ledger is untouched until every entry has been validated, and a
\* run over a record file with an entry dated before its predecessor, the
\* entries before it being valid, fails with the ordering error with the
\* queues, reservations, ref_value, profit and cash_flow at their initial
\* values.
C5_ValidationBeforeLedger ==
    /\ pass \in {"parse", "validate"} => LedgerInitial
    /\ ~LedgerInitial => validated = Len(data_table)
    /\ \A i \in 1..MaxEntries :
         (RunOver /\ OutOfOrderAt(i) /\ validated >= i - 1)
         => err = "NonChronological" /\ LedgerInitial

\* two valid entries, then one dated before the second
C5_Witness ==
    /\ err = "NonChronological"
    /\ validated = 2
    /\ OutOfOrderAt(3)
    /\ LedgerInitial

\* C6: the date check rejects an entry iff its DATE is earlier than the
\* previous entry's DATE (an equal date passes), and the entries of a run
\* that reached the ledger pass are non-decreasing by DATE.
C6_DateCheck ==
    /\ (pass = "validate" /\ idx < Len(data_table)) =>
         LET r == validate_line(data_table[idx + 1], last_date, cache, fetches)
         IN r.raised = "NonChronological"
            <=> (idx >= 1 /\ Earlier(data_table[idx + 1].DATE, data_table[idx].DATE))
    /\ pass \in {"ledger", "done"} => \A i \in 1..MaxEntries : ~OutOfOrderAt(i)

\* two entries of the same date reached the ledger pass, and a third of a
\* later date
C6_Witness ==
    /\ pass = "ledger"
    /\ Len(data_table) = 3
    /\ data_table[1].DATE = data_table[2].DATE
    /\ Earlier(data_table[2].DATE, data_table[3].DATE)

\* the record file of the scenario: OBTAIN 2 units, then RELEASE 1 unit
\* under reference order1, dates in order
Scenario ==
    /\ Len(data_table) = 2
    /\ data_table[1].action = "OBTAIN"
    /\ data_table[2].action = "RELEASE"
    /\ data_table[2].REF = Order1
    /\ ~OutOfOrderAt(2)

\* C7: OBTAIN of 2 units at unit cost 5, then RELEASE of 1 unit under the
\* new reference order1: the run completes without error with one unit at
\* cost 5 in the queue, ref_value["order1"] = -5, profit = -5, cash_flow = 0
\* (the day's rates being there or downloaded).
C7_Scenario ==
    (Scenario /\ RunOver /\ err # "FetchFailed") =>
        /\ pass = "done"
        /\ err = "ok"
        /\ item_cost[AVAILABLE_ITEMS[1]] = <<5>>
        /\ Order1 \in DOMAIN ref_value
        /\ ref_value[Order1] = -5
        /\ profit = -5
        /\ cash_flow = 0

\* ref_value[k], a reference never seen counting as 0
ValueOf(rv, k) == IF k \in DOMAIN rv THEN rv[k] ELSE 0

\* C8: an INCOME entry, whatever its reference (empty, already in ref_value
\* or never seen), adds VALUE to cash_flow, to profit and to
\* ref_value[stripped REF] and leaves the queues and reservations unchanged.
C8_IncomeEffect ==
    LedgerLive =>
      \A e \in IncomeEntries :
        KeyOk(e) =>
          LET A == After(e)
          IN /\ A.err = "ok"
             /\ A.cash_flow = cash_flow + e.VALUE
             /\ A.profit = profit + e.VALUE
             /\ Key(e) \in DOMAIN A.ref_value
             /\ A.ref_value[Key(e)] = ValueOf(ref_value, Key(e)) + e.VALUE
             /\ A.item_cost = item_cost
             /\ A.reserved_items_counter = reserved_items_counter

\* C9: an EXPENSE entry subtracts VALUE from cash_flow; one whose TYPE is
\* not material also subtracts VALUE from profit and from
\* ref_value[stripped REF], for any reference, seen before or not; a
\* material one leaves profit and ref_value unchanged.
C9_ExpenseEffect ==
    LedgerLive =>
      \A e \in ExpenseEntries :
        LET A == After(e)
        IN /\ A.cash_flow = cash_flow - e.VALUE
           /\ e.TYPE = "material" =>
                A.err = "ok" /\ A.profit = profit /\ A.ref_value = ref_value
           /\ (e.TYPE # "material" /\ KeyOk(e)) =>
                /\ A.err = "ok"
                /\ A.profit = profit - e.VALUE
                /\ Key(e) \in DOMAIN A.ref_value
                /\ A.ref_value[Key(e)] = ValueOf(ref_value, Key(e)) - e.VALUE

\* what a reservation of items records: the quantity asked of every item named
Reservation(items) == [p \in Named(items) |-> Requested(items, p)]

\* C10: a RESERVE under a new reference succeeds iff every named item's
\* queue holds the requested quantity; on success the requested units are
\* gone from the front of each queue, exactly the requested quantities are
\* recorded under the stripped reference, the popped cost is subtracted from
\* profit, ref_value[ref] is minus that cost and cash_flow is unchanged.
C10_ReserveNewReference ==
    LedgerLive =>
      \A e \in ReserveEntries :
        (KeyOk(e) /\ Key(e) \notin DOMAIN ref_value) =>
          LET A == After(e)
              cost == FifoCost(e.ITEMS, item_cost)
          IN /\ A.err = "ok" <=> Enough(e.ITEMS, item_cost)
             /\ A.err = "ok" =>
                  /\ \A p \in ItemNames :
                       A.item_cost[p] = DropFirst(item_cost[p], Requested(e.ITEMS, p))
                  /\ DOMAIN A.reserved_items_counter =
                       DOMAIN reserved_items_counter \cup {Key(e)}
                  /\ A.reserved_items_counter[Key(e)].items = Reservation(e.ITEMS)
                  /\ \A k \in DOMAIN reserved_items_counter :
                       A.reserved_items_counter[k] = reserved_items_counter[k]
                  /\ A.profit = profit - cost
                  /\ A.ref_value = (Key(e) :> (0 - cost)) @@ ref_value
                  /\ A.cash_flow = cash_flow

\* a reservation of one unit of each item, at costs 20 and 10, after an
\* income
C10_Witness ==
    /\ err = "ok"
    /\ cash_flow = 7
    /\ profit = -23
    /\ \E k \in DOMAIN reserved_items_counter :
         /\ reserved_items_counter[k].items = [p \in ItemNames |-> 1]
         /\ ref_value[k] = -30
         /\ k \in DOMAIN reserves

\* C11: a RELEASE under a reference that has a reservation only decrements
\* that reference's reserved quantities and leaves the queues, profit,
\* cash_flow and ref_value unchanged; a RELEASE under a reference with no
\* reservation pops the requested units from the front of the queues,
\* subtracts their cost from profit and from ref_value[ref] (a new key
\* starting at zero), leaves cash_flow unchanged and creates no reservation
\* record.
C11_ReleaseFrame ==
    LedgerLive =>
      \A e \in ReleaseEntries :
        KeyOk(e) =>
          LET A == After(e)
              k == Key(e)
              cost == FifoCost(e.ITEMS, item_cost)
          IN /\ k \in DOMAIN reserved_items_counter =>
                  /\ A.item_cost = item_cost
                  /\ A.profit = profit
                  /\ A.cash_flow = cash_flow
                  /\ A.ref_value = ref_value
                  /\ DOMAIN A.reserved_items_counter = DOMAIN reserved_items_counter
                  /\ \A j \in DOMAIN reserved_items_counter \ {k} :
                       A.reserved_items_counter[j] = reserved_items_counter[j]
                  /\ A.err = "ok" =>
                       \A p \in ItemNames :
                         Outstanding(A.reserved_items_counter, k, p) =
                           Outstanding(reserved_items_counter, k, p) - Requested(e.ITEMS, p)
             /\ k \notin DOMAIN reserved_items_counter =>
                  /\ A.cash_flow = cash_flow
                  /\ A.reserved_items_counter = reserved_items_counter
                  /\ Enough(e.ITEMS, item_cost) =>
                       /\ A.err = "ok"
                       /\ \A p \in ItemNames :
                            A.item_cost[p] = DropFirst(item_cost[p], Requested(e.ITEMS, p))
                       /\ A.profit = profit - cost
                       /\ A.ref_value = (k :> (ValueOf(ref_value, k) - cost)) @@ ref_value

\* one of two reserved units has been released, a unit is left in the
\* queue and the reservation's cost is all that was charged
C11_Witness ==
    /\ err = "ok"
    /\ \E k \in DOMAIN reserves :
         /\ Requested(reserves[k][1], AVAILABLE_ITEMS[1]) = 2
         /\ Outstanding(reserved_items_counter, k, AVAILABLE_ITEMS[1]) = 1
         /\ ref_value[k] = profit
    /\ Len(item_cost[AVAILABLE_ITEMS[1]]) = 1

\* C12: an OBTAIN entry appends exactly QUANTITY copies of COSTEACH to the
\* back of the named item's queue, keeps the elements already there in
\* place, and leaves the other queues, profit, cash_flow, ref_value and the
\* reservations unchanged.
C12_ObtainEffect ==
    LedgerLive =>
      \A e \in ObtainEntries :
        LET A == After(e)
            old == item_cost[e.PROJECT]
            new == A.item_cost[e.PROJECT]
        IN /\ A.err = "ok"
           /\ Len(new) = Len(old) + e.QUANTITY
           /\ SubSeq(new, 1, Len(old)) = old
           /\ \A i \in (Len(old) + 1)..Len(new) : new[i] = e.COSTEACH
           /\ \A p \in ItemNames \ {e.PROJECT} : A.item_cost[p] = item_cost[p]
           /\ A.profit = profit
           /\ A.cash_flow = cash_flow
           /\ A.ref_value = ref_value
           /\ A.reserved_items_counter = reserved_items_counter

\* C13: in every state reached without error, every quantity stored in a
\* reservation record is strictly positive.
C13_ReservedQuantitiesPositive ==
    err = "ok" =>
      \A k \in DOMAIN reserved_items_counter :
        \A p \in DOMAIN reserved_items_counter[k].items :
          reserved_items_counter[k].items[p] > 0

Letters ==
    {"a", "b", "c", "d", "e", "f", "g", "h", "i", "j", "k", "l", "m",
     "n", "o", "p", "q", "r", "s", "t", "u", "v", "w", "x", "y", "z"}

\* a reference without its trailing run of letters
RECURSIVE Stem(_)
Stem(s) ==
    IF s = <<>> \/ s[Len(s)] \notin Letters THEN s
    ELSE Stem(SubSeq(s, 1, Len(s) - 1))

Order123 == <<"o", "r", "d", "e", "r", "-", "1", "2", "3">>
SampleRefs == Refs \cup {Order123 \o <<"a">>, Order123 \o <<"b">>}

\* C14: the key of a reference is the REF without its trailing letters: for
\* two non-empty references that differ only in a trailing run of letters
\* the derivation succeeds and gives one and the same key, a consuming
\* RELEASE is accumulated under that key, and the empty reference has the
\* empty key.
C14_KeyDerivation ==
    /\ ~remove_suffix_raises(<<>>) /\ remove_suffix(<<>>) = <<>>
    /\ \A r1, r2 \in SampleRefs :
         Stem(r1) = Stem(r2) =>
           /\ ~remove_suffix_raises(r1)
           /\ ~remove_suffix_raises(r2)
           /\ remove_suffix(r1) = Stem(r1)
           /\ remove_suffix(r2) = Stem(r1)
    /\ LedgerLive =>
         \A e \in ReleaseEntries :
           (Stem(e.REF) \notin DOMAIN reserved_items_counter
              /\ Enough(e.ITEMS, item_cost))
           => /\ After(e).err = "ok"
              /\ Stem(e.REF) \in DOMAIN After(e).ref_value

SampleAmounts == {<<"USD", 100>>, <<"RMB", 70>>}
SampleFees == {<<"%", 0>>, <<"%", 10>>, <<"RMB", 7>>, <<"0">>}

\* pass 2 is about to value an INCOME or EXPENSE entry
Valuing ==
    /\ pass = "validate"
    /\ idx < Len(data_table)
    /\ data_table[idx + 1].action \in {"INCOME", "EXPENSE"}

\* an amount expression in USD, at 7 CNY to the dollar
InUsd(amount) ==
    IF amount = <<"0">> THEN 0
    ELSE IF amount[1] = "USD" THEN amount[2]
    ELSE amount[2] \div 7

FeeInUsd(amount, fee) ==
    IF fee[1] = "%" THEN (InUsd(amount) * fee[2]) \div 100 ELSE InUsd(fee)

C16_NoPartialOutput ==
    /\ [](reported =>
            /\ pass = "done"
            /\ err = "ok"
            /\ validated = Len(data_table)
            /\ idx = Len(data_table))
    /\ [](err # "ok" => pass = "aborted" /\ ~reported)
    /\ [][pass # "aborted"]_vars

\* the report of a run over three entries
C16_Witness ==
    /\ reported
    /\ Len(data_table) = 3
    /\ validated = 3
    /\ idx = 3

\* the number of downloads of a day's rates so far
Fetched(n, d) == IF d \in DOMAIN n THEN n[d] ELSE 0

\* C17: a conversion for a date with no cache file downloads it once and
\* writes the file, a conversion for a date that has one neither downloads
\* nor writes, a cache file is never removed or written again, and no date
\* is downloaded more than once in a run.
C17_CacheWriteOnce ==
    /\ [](\A d \in DOMAIN fetches : fetches[d] <= 1)
    /\ [](Valuing =>
            \A a \in SampleAmounts :
              LET d == data_table[idx + 1].DATE
                  c == convert_to_usd(d, a, cache, fetches)
              IN IF d \in cache
                 THEN c.cache = cache /\ c.fetches = fetches
                 ELSE /\ c.cache = cache \cup {d}
                      /\ Fetched(c.fetches, d) = Fetched(fetches, d) + 1
                      /\ \A o \in Dates \ {d} : Fetched(c.fetches, o) = Fetched(fetches, o))
    /\ [][/\ cache \subseteq cache'
          /\ \A d \in Dates :
               /\ d \in cache => Fetched(fetches', d) = Fetched(fetches, d)
               /\ (d \notin cache /\ d \in cache') =>
                    Fetched(fetches', d) = Fetched(fetches, d) + 1]_vars

\* two entries of one day have been converted on one download
C17_Witness ==
    /\ validated >= 2
    /\ data_table[1].DATE = data_table[2].DATE
    /\ "VALUE" \in DOMAIN data_table[1]
    /\ "COSTEACH" \in DOMAIN data_table[2]
    /\ Fetched(fetches, data_table[1].DATE) = 1
    /\ data_table[1].DATE \in cache

\* C18: in every state of the ledger pass reached without error, the sum
\* of all values of ref_value, that of the empty key included, equals profit.
C18_RefValueSum ==
    (pass = "ledger" /\ err = "ok") => SumOver(ref_value, DOMAIN ref_value) = profit

\* an income without reference, a reservation and an expense under its
\* reference
C18_Witness ==
    /\ pass = "ledger"
    /\ err = "ok"
    /\ ref_value[<<>>] = 7
    /\ \E k \in DOMAIN reserves : ref_value[k] = -13
    /\ profit = -6

IsSuffix(s, t) == Len(s) <= Len(t) /\ s = SubSeq(t, Len(t) - Len(s) + 1, Len(t))

\* C19: in every state reached without error and for every item, the length
\* of the queue is the total QUANTITY obtained minus the units consumed by
\* RESERVE and by RELEASE without reservation, and the queue is a suffix of
\* all the costs OBTAIN has appended for the item, in entry order; a RELEASE
\* under a reserved reference changes no queue.
C19_UnitConservation ==
    /\ err = "ok" =>
         \A p \in ItemNames :
           /\ Len(item_cost[p]) = quantity_obtained[p] - units_consumed[p]
           /\ IsSuffix(item_cost[p], appended[p])
    /\ LedgerLive =>
         \A e \in ReleaseEntries :
           (KeyOk(e) /\ Key(e) \in DOMAIN reserved_items_counter)
           => After(e).item_cost = item_cost

\* every unit reserved under k has been released
FullyReleased(k) ==
    /\ k \in DOMAIN reserves
    /\ \A p \in ItemNames : Outstanding(reserved_items_counter, k, p) = 0

\* C20: the record a RESERVE has created is never removed, so a later
\* RELEASE under its reference takes the reservation path: it pops no
\* queue and changes neither profit nor ref_value, and once the reservation
\* is fully released any further RELEASE under the reference fails.
C20_ReservationRecordStays ==
    /\ \A k \in DOMAIN reserves : k \in DOMAIN reserved_items_counter
    /\ LedgerLive =>
         \A e \in ReleaseEntries :
           (KeyOk(e) /\ Key(e) \in DOMAIN reserves) =>
             LET A == After(e)
             IN /\ A.item_cost = item_cost
                /\ A.profit = profit
                /\ A.ref_value = ref_value
                /\ Key(e) \in DOMAIN A.reserved_items_counter
                /\ FullyReleased(Key(e)) => A.err # "ok"

====
